---- MODULE Spec2Model ----
(***************************************************************************)
(* The durable job queue (QueueService over the processing_queue table)    *)
(* and the DocumentWorker poll-claim-execute loop.                         *)
(*                                                                         *)
(* Every await of the JavaScript code is one step of the model: between    *)
(* two awaits a worker runs alone, at an await any other process (another  *)
(* worker, the upload controller, the clock, a signal) may act.            *)
(* Timestamps are minutes; the clock advances in steps of TickMinutes.     *)
(***************************************************************************)
EXTENDS Integers, Sequences, FiniteSets, TLC

\* ------------------------------------------------------------- bounds
NumWorkers  == 2      \* worker processes
NumJobs     == 2      \* jobs the upload controller enqueues
NumDocs     == 2      \* documents of one uploaded job
MaxSignals  == 1      \* termination signals delivered in a run
MaxAttempts == 2      \* max_attempts column of a new job
TickMinutes == 31     \* minutes the clock advances in one step
MaxTicks    == 2      \* clock steps of a run
MaxCrashes  == 1      \* worker processes that die during a run

\* ---------------------------------------------------- program constants
StuckMinutes == 30    \* QueueService.releaseStuckJobs(30) at worker start

NULL     == 0 - 1     \* SQL NULL of a timestamp column
NoWorker == 0         \* SQL NULL of worker_id
NoJob    == 0         \* null returned by claimNextJob

Workers == 1..NumWorkers

VARIABLES
    jobs,               \* processing_queue: sequence of rows, job_id = index
    chart,              \* charts.ai_status of the chart of each job
    now,                \* CURRENT_TIMESTAMP
    pc,                 \* per worker: position in start()/processNextJob()
    isRunning,          \* per worker: this.isRunning
    shutdownRequested,  \* per worker: this.shutdownRequested
    job,                \* per worker: the row claimNextJob selected/returned
    ocr,                \* per worker: progress of the run, see NoProgress
    errMsg,             \* per worker: error.message of the caught error
    claimants,          \* history: per job, workers it was returned to since it was last finished/released
    failCount,          \* history: per job, number of failJob calls
    readyBy,            \* history: per job, TRUE once a run of it set its chart 'ready'
    sweeps              \* history: per worker process, releaseStuckJobs calls issued

vars == <<jobs, chart, now, pc, isRunning, shutdownRequested, job, ocr, errMsg,
          claimants, failCount, readyBy, sweeps>>

workerVars == <<pc, isRunning, shutdownRequested, job, ocr, errMsg>>
histVars   == <<claimants, failCount, readyBy, sweeps>>

JobIds == 1..Len(jobs)

\* ------------------------------------------------------------ job store

\* INSERT INTO processing_queue (...) VALUES (..., 'pending', job_data):
\* the columns not named take their defaults.  created_at is the insertion
\* order (the store's timestamps are strictly ordered by insertion).
NewRow(id, ndocs) ==
    [ job_id        |-> id,
      status        |-> "pending",
      attempts      |-> 0,
      max_attempts  |-> MaxAttempts,
      worker_id     |-> NoWorker,
      locked_at     |-> NULL,
      started_at    |-> NULL,
      completed_at  |-> NULL,
      created_at    |-> id,
      error_message |-> "",
      ndocs         |-> ndocs ]

\* variant: the retry test off by one, attempts <= max_attempts
EligibleOffByOne(row) ==
    \/ row.status = "pending"
    \/ (row.status = "failed" /\ row.attempts <= row.max_attempts)

\* WHERE (status = 'pending' OR (status = 'failed' AND attempts < max_attempts))
Eligible(row) ==
    \/ row.status = "pending"
    \/ (row.status = "failed" /\ row.attempts < row.max_attempts)

\* variant: the SELECT takes no row lock (no FOR UPDATE SKIP LOCKED)
RowLockedNoForUpdate(id) == FALSE

\* A row is locked while a claim transaction that selected it FOR UPDATE
\* has not yet committed.
RowLocked(id) == \E w \in Workers : pc[w] = "update" /\ job[w].job_id = id

\* Rows the SELECT may return: matching the WHERE clause, SKIP LOCKED.
Candidates == { id \in JobIds : Eligible(jobs[id]) /\ ~RowLocked(id) }

\* variant: ORDER BY created_at DESC
SelectNextNewest ==
    IF Candidates = {} THEN NoJob
    ELSE CHOOSE id \in Candidates :
            \A k \in Candidates : jobs[id].created_at >= jobs[k].created_at

\* ORDER BY created_at ASC LIMIT 1
SelectNext ==
    IF Candidates = {} THEN NoJob
    ELSE CHOOSE id \in Candidates :
            \A k \in Candidates : jobs[id].created_at <= jobs[k].created_at

\* UPDATE ... SET status = 'processing', worker_id = $1, locked_at = now,
\*   started_at = COALESCE(started_at, now), attempts = attempts + 1
ClaimedRow(row, w) ==
    [ row EXCEPT !.status     = "processing",
                 !.worker_id  = w,
                 !.locked_at  = now,
                 !.started_at = IF row.started_at = NULL THEN now ELSE row.started_at,
                 !.attempts   = row.attempts + 1 ]

\* return { ...job, status: 'processing', worker_id: workerId }
ReturnedJob(row, w) ==
    [ row EXCEPT !.status = "processing", !.worker_id = w ]

\* UPDATE ... SET status = 'completed', completed_at = now, locked_at = NULL
CompletedRow(row) ==
    [ row EXCEPT !.status = "completed", !.completed_at = now, !.locked_at = NULL ]

\* UPDATE ... SET status = 'failed', error_message = $2, locked_at = NULL
FailedRow(row, msg) ==
    [ row EXCEPT !.status = "failed", !.error_message = msg, !.locked_at = NULL ]

\* variant: the age test is missing from the WHERE clause
StuckAnyAge(row, stuckMinutes) == row.status = "processing"

\* WHERE status = 'processing' AND locked_at < NOW() - INTERVAL '1 minute' * $1
Stuck(row, stuckMinutes) ==
    row.status = "processing" /\ row.locked_at < now - stuckMinutes

\* variant: the release also gives the job its attempts back
ReleasedRowResetsAttempts(row) ==
    [ row EXCEPT !.status = "pending", !.worker_id = NoWorker, !.locked_at = NULL,
                 !.error_message = "Released: worker timeout", !.attempts = 0 ]

\* UPDATE ... SET status = 'pending', worker_id = NULL, locked_at = NULL,
\*   error_message = 'Released: worker timeout'
ReleasedRow(row) ==
    [ row EXCEPT !.status = "pending", !.worker_id = NoWorker, !.locked_at = NULL,
                 !.error_message = "Released: worker timeout" ]

ReleaseStuckJobs(stuckMinutes) ==
    [ id \in JobIds |->
        IF Stuck(jobs[id], stuckMinutes) THEN ReleasedRow(jobs[id]) ELSE jobs[id] ]


\* the counters of getStats other than total
StatsBuckets == {"pending", "processing", "completed", "permanently_failed", "retrying"}

\* variant: the retrying bucket takes attempts <= max_attempts
StatsFilterOverlap(b, row) ==
    CASE b = "pending"            -> row.status = "pending"
      [] b = "processing"         -> row.status = "processing"
      [] b = "completed"          -> row.status = "completed"
      [] b = "permanently_failed" -> row.status = "failed" /\ row.attempts >= row.max_attempts
      [] b = "retrying"           -> row.status = "failed" /\ row.attempts <= row.max_attempts

\* COUNT(*) FILTER (WHERE ...) as b
StatsFilter(b, row) ==
    CASE b = "pending"            -> row.status = "pending"
      [] b = "processing"         -> row.status = "processing"
      [] b = "completed"          -> row.status = "completed"
      [] b = "permanently_failed" -> row.status = "failed" /\ row.attempts >= row.max_attempts
      [] b = "retrying"           -> row.status = "failed" /\ row.attempts < row.max_attempts

\* getStats: SELECT COUNT(*) FILTER ..., COUNT(*) as total FROM
\* processing_queue WHERE created_at > NOW() - INTERVAL '24 hours'.  A run of
\* the model spans MaxTicks * TickMinutes minutes, so every row is in the window.
GetStats ==
    [ b \in StatsBuckets \cup {"total"} |->
        IF b = "total" THEN Len(jobs)
        ELSE Cardinality({ id \in JobIds : StatsFilter(b, jobs[id]) }) ]

\* job before a claim returned one
NullRow == NewRow(NoJob, 0)

\* locals of processNextJob outside the phases that use them:
\*   i     documents the OCR loop has handled
\*   ok    successfulOCR.length
\*   s     iterations of the summary loop done
\*   res   ocrResults: per document handled, the ocr_status recorded for it
\*   sfail whether a summary of this run failed (error result or exception)
NoProgress == [i |-> 0, ok |-> 0, s |-> 0, res |-> << >>, sfail |-> FALSE]

Id(w) == job[w].job_id

\* ------------------------------------------------------------------ Init

Init ==
    /\ jobs = << >>
    /\ chart = << >>
    /\ now = 0
    /\ pc = [w \in Workers |-> "new"]
    /\ isRunning = [w \in Workers |-> FALSE]
    /\ shutdownRequested = [w \in Workers |-> FALSE]
    /\ job = [w \in Workers |-> NullRow]
    /\ ocr = [w \in Workers |-> NoProgress]
    /\ errMsg = [w \in Workers |-> ""]
    /\ claimants = [id \in 1..NumJobs |-> {}]
    /\ failCount = [id \in 1..NumJobs |-> 0]
    /\ readyBy = [id \in 1..NumJobs |-> FALSE]
    /\ sweeps = [w \in Workers |-> 0]

\* ------------------------------------------------- upload controller, clock

\* DocumentController.processDocuments: the chart is created 'queued', then
\* the job is inserted with the uploaded documents.
AddJob ==
    /\ Len(jobs) < NumJobs
    /\ jobs' = Append(jobs, NewRow(Len(jobs) + 1, NumDocs))
    /\ chart' = Append(chart, "queued")
    /\ UNCHANGED <<now, workerVars, histVars>>

Tick ==
    /\ now < MaxTicks * TickMinutes
    /\ now' = now + TickMinutes
    /\ UNCHANGED <<jobs, chart, workerVars, histVars>>

\* ---------------------------------------------------------------- worker

\* variant: start() enters the poll loop without the sweep
StartNoSweep(w) ==
    /\ pc[w] = "new"
    /\ isRunning' = [isRunning EXCEPT ![w] = TRUE]
    /\ pc' = [pc EXCEPT ![w] = "loop"]
    /\ UNCHANGED <<jobs, chart, now, shutdownRequested, job, ocr, errMsg, histVars>>

\* start(): isRunning = true, signal handlers registered
Start(w) ==
    /\ pc[w] = "new"
    /\ isRunning' = [isRunning EXCEPT ![w] = TRUE]
    /\ pc' = [pc EXCEPT ![w] = "sweep"]
    /\ UNCHANGED <<jobs, chart, now, shutdownRequested, job, ocr, errMsg, histVars>>

\* await QueueService.releaseStuckJobs(30)
Sweep(w) ==
    /\ pc[w] = "sweep"
    /\ jobs' = ReleaseStuckJobs(StuckMinutes)
    /\ claimants' = [id \in 1..NumJobs |->
                       IF id \in JobIds /\ Stuck(jobs[id], StuckMinutes)
                       THEN {} ELSE claimants[id]]
    /\ sweeps' = [sweeps EXCEPT ![w] = @ + 1]
    /\ pc' = [pc EXCEPT ![w] = "loop"]
    /\ UNCHANGED <<chart, now, isRunning, shutdownRequested, job, ocr, errMsg,
                   failCount, readyBy>>

\* while (this.isRunning) { processNextJob() ... }: the loop test after the
\* sweep or the poll sleep, an error caught in the last cycle is gone;
\* claimNextJob then awaits its connection and BEGIN.
Loop(w) ==
    /\ pc[w] = "loop"
    /\ pc' = [pc EXCEPT ![w] = IF isRunning[w] THEN "select" ELSE "stopped"]
    /\ errMsg' = [errMsg EXCEPT ![w] = ""]
    /\ UNCHANGED <<jobs, chart, now, isRunning, shutdownRequested, job, ocr, histVars>>

\* claimNextJob: SELECT ... FOR UPDATE SKIP LOCKED; no row: COMMIT, return null
Select(w) ==
    /\ pc[w] = "select"
    /\ IF SelectNext = NoJob
       THEN /\ pc' = [pc EXCEPT ![w] = "loop"]
            /\ UNCHANGED job
       ELSE /\ pc' = [pc EXCEPT ![w] = "update"]
            /\ job' = [job EXCEPT ![w] = jobs[SelectNext]]
    /\ UNCHANGED <<jobs, chart, now, isRunning, shutdownRequested, ocr, errMsg, histVars>>

\* claimNextJob: UPDATE of the selected row, COMMIT, return
Update(w) ==
    /\ pc[w] = "update"
    /\ jobs' = [jobs EXCEPT ![Id(w)] = ClaimedRow(jobs[Id(w)], w)]
    /\ job' = [job EXCEPT ![w] = ReturnedJob(job[w], w)]
    /\ claimants' = [claimants EXCEPT ![Id(w)] = @ \cup {w}]
    /\ pc' = [pc EXCEPT ![w] = "chart"]
    /\ UNCHANGED <<chart, now, isRunning, shutdownRequested, ocr, errMsg,
                   failCount, readyBy, sweeps>>

\* processNextJob returns to the loop of start(): its locals are gone
Return(w) ==
    /\ pc' = [pc EXCEPT ![w] = "loop"]
    /\ job' = [job EXCEPT ![w] = NullRow]
    /\ ocr' = [ocr EXCEPT ![w] = NoProgress]
    /\ errMsg' = [errMsg EXCEPT ![w] = ""]

\* variant: no `if (successfulOCR.length === 0) throw` after the OCR loop
AfterOCRNoCheck(i, ok, ndocs) ==
    IF i < ndocs THEN "ocr" ELSE "ai"

\* where the OCR loop leaves off after i documents, ok of them successful:
\* the next document, or `if (successfulOCR.length === 0) throw`
AfterOCR(i, ok, ndocs) ==
    IF i < ndocs THEN "ocr" ELSE IF ok = 0 THEN "fail" ELSE "ai"

\* await ChartRepository.updateStatus(chartNumber, 'processing')
UpdateChartProcessing(w) ==
    /\ pc[w] = "chart"
    /\ chart' = [chart EXCEPT ![Id(w)] = "processing"]
    /\ pc' = [pc EXCEPT ![w] = AfterOCR(0, 0, job[w].ndocs)]
    /\ errMsg' = [errMsg EXCEPT ![w] =
                    IF job[w].ndocs = 0 THEN "All OCR processing failed" ELSE @]
    /\ UNCHANGED <<jobs, now, isRunning, shutdownRequested, job, ocr, histVars>>

\* DocumentRepository.updateOCRResults: ocr_status = 'completed'
OcrCompleted == "completed"

\* DocumentRepository.markOCRFailed: the document is recorded as failed
OcrFailed == "failed"

\* variant: the first failed document ends the OCR loop
PerformOCRAbortsBatch(w) ==
    /\ pc[w] = "ocr"
    /\ \E success \in BOOLEAN :
         LET i    == ocr[w].i + 1
             ok   == ocr[w].ok + (IF success THEN 1 ELSE 0)
             res  == Append(ocr[w].res, IF success THEN OcrCompleted ELSE OcrFailed)
             next == IF success THEN AfterOCR(i, ok, job[w].ndocs) ELSE "fail"
         IN  /\ pc' = [pc EXCEPT ![w] = next]
             /\ ocr' = [ocr EXCEPT ![w] = [NoProgress EXCEPT !.i = i, !.ok = ok, !.res = res]]
             /\ errMsg' = [errMsg EXCEPT ![w] =
                    IF next = "fail" THEN "All OCR processing failed" ELSE @]
    /\ UNCHANGED <<jobs, chart, now, isRunning, shutdownRequested, job, histVars>>

\* one iteration of the OCR loop: performOCR(doc) succeeds or fails, the
\* outcome is written to the document and pushed to ocrResults
PerformOCR(w) ==
    /\ pc[w] = "ocr"
    /\ \E success \in BOOLEAN :
         LET i    == ocr[w].i + 1
             ok   == ocr[w].ok + (IF success THEN 1 ELSE 0)
             res  == Append(ocr[w].res, IF success THEN OcrCompleted ELSE OcrFailed)
             next == AfterOCR(i, ok, job[w].ndocs)
         IN  /\ pc' = [pc EXCEPT ![w] = next]
             /\ ocr' = [ocr EXCEPT ![w] = [NoProgress EXCEPT !.i = i, !.ok = ok, !.res = res]]
             /\ errMsg' = [errMsg EXCEPT ![w] =
                    IF next = "fail" THEN "All OCR processing failed" ELSE @]
    /\ UNCHANGED <<jobs, chart, now, isRunning, shutdownRequested, job, histVars>>

\* await aiService.processForCoding(formatForAI(ocrResults), ...);
\* `if (!aiResult.success) throw`; ocrResults is not used after this call
ProcessForCoding(w) ==
    /\ pc[w] = "ai"
    /\ \E success \in BOOLEAN :
         /\ pc' = [pc EXCEPT ![w] = IF success THEN "summary" ELSE "fail"]
         /\ ocr' = [ocr EXCEPT ![w] =
                IF success THEN [@ EXCEPT !.res = << >>] ELSE NoProgress]
         /\ errMsg' = [errMsg EXCEPT ![w] =
                IF success THEN @ ELSE "AI processing failed"]
    /\ UNCHANGED <<jobs, chart, now, isRunning, shutdownRequested, job, histVars>>

\* what generateDocumentSummary may do: return a summary (then stored by
\* updateAISummary), return an error result, or throw
SummaryOutcomes == {"summary", "error", "thrown"}

\* variant: no try/catch inside the summary loop, a thrown exception
\* reaches the catch of processNextJob
GenerateSummaryUncaught(w) ==
    /\ pc[w] = "summary"
    /\ \E outcome \in SummaryOutcomes :
         IF outcome = "thrown"
         THEN /\ ocr' = [ocr EXCEPT ![w] = NoProgress]
              /\ pc' = [pc EXCEPT ![w] = "fail"]
              /\ errMsg' = [errMsg EXCEPT ![w] = "Summary failed"]
         ELSE /\ UNCHANGED errMsg
              /\ IF ocr[w].s + 1 < ocr[w].ok
                 THEN /\ ocr' = [ocr EXCEPT ![w].s = @ + 1,
                                            ![w].sfail = @ \/ outcome # "summary"]
                      /\ UNCHANGED pc
                 ELSE /\ ocr' = [ocr EXCEPT ![w] =
                            [NoProgress EXCEPT !.sfail = ocr[w].sfail \/ outcome # "summary"]]
                      /\ pc' = [pc EXCEPT ![w] = "save"]
    /\ UNCHANGED <<jobs, chart, now, isRunning, shutdownRequested, job, histVars>>

\* one iteration of the summary loop over successfulOCR; an error result
\* is skipped and an exception is caught inside the loop, which goes on
GenerateSummary(w) ==
    /\ pc[w] = "summary"
    /\ \E outcome \in SummaryOutcomes :
         IF ocr[w].s + 1 < ocr[w].ok
         THEN /\ ocr' = [ocr EXCEPT ![w].s = @ + 1,
                                    ![w].sfail = @ \/ outcome # "summary"]
              /\ UNCHANGED pc
         ELSE /\ ocr' = [ocr EXCEPT ![w] =
                    [NoProgress EXCEPT !.sfail = ocr[w].sfail \/ outcome # "summary"]]
              /\ pc' = [pc EXCEPT ![w] = "save"]
    /\ UNCHANGED <<jobs, chart, now, isRunning, shutdownRequested, job, errMsg,
                   histVars>>

\* variant: the results are never written to the chart before completeJob
UpdateWithAIResultsSkipped(w) ==
    /\ pc[w] = "save"
    /\ pc' = [pc EXCEPT ![w] = "complete"]
    /\ UNCHANGED <<jobs, chart, now, isRunning, shutdownRequested, job, ocr, errMsg,
                   histVars>>

\* await ChartRepository.updateWithAIResults(...): ai_status = 'ready'
UpdateWithAIResults(w) ==
    /\ pc[w] = "save"
    /\ chart' = [chart EXCEPT ![Id(w)] = "ready"]
    /\ readyBy' = [readyBy EXCEPT ![Id(w)] = TRUE]
    /\ pc' = [pc EXCEPT ![w] = "complete"]
    /\ UNCHANGED <<jobs, now, isRunning, shutdownRequested, job, ocr, errMsg,
                   claimants, failCount, sweeps>>

\* await QueueService.completeJob(job.job_id); the UPDATE waits for a row
\* lock held by a claim in progress
CompleteJob(w) ==
    /\ pc[w] = "complete"
    /\ ~RowLocked(Id(w))
    /\ jobs' = [jobs EXCEPT ![Id(w)] = CompletedRow(@)]
    /\ claimants' = [claimants EXCEPT ![Id(w)] = {}]
    /\ Return(w)
    /\ UNCHANGED <<chart, now, isRunning, shutdownRequested, failCount, readyBy, sweeps>>

\* if (job.attempts >= job.max_attempts), on the row claimNextJob returned
ReportsPermanentFailure(row) == row.attempts >= row.max_attempts

\* catch: await QueueService.failJob(job.job_id, error.message), then the
\* test whether the chart is to be marked failed
FailJob(w) ==
    /\ pc[w] = "fail"
    /\ ~RowLocked(Id(w))
    /\ jobs' = [jobs EXCEPT ![Id(w)] = FailedRow(@, errMsg[w])]
    /\ claimants' = [claimants EXCEPT ![Id(w)] = {}]
    /\ failCount' = [failCount EXCEPT ![Id(w)] = @ + 1]
    /\ IF ReportsPermanentFailure(job[w])
       THEN /\ pc' = [pc EXCEPT ![w] = "failchart"]
            /\ errMsg' = [errMsg EXCEPT ![w] = ""]
            /\ ocr' = [ocr EXCEPT ![w] = NoProgress]
            /\ UNCHANGED job
       ELSE Return(w)
    /\ UNCHANGED <<chart, now, isRunning, shutdownRequested, readyBy, sweeps>>

\* catch: await ChartRepository.updateStatus(jobData.chartNumber, 'failed')
UpdateChartFailed(w) ==
    /\ pc[w] = "failchart"
    /\ chart' = [chart EXCEPT ![Id(w)] = "failed"]
    /\ Return(w)
    /\ UNCHANGED <<jobs, now, isRunning, shutdownRequested, histVars>>

\* the phase events worker w has emitted for the attempt it is executing:
\* processNextJob takes SLA marks and writes the chart status, it has no
\* call that emits, publishes or relays a phase transition
EmittedPhases(w) == << >>

\* variant: no handler is registered, the signal ends the process at once
ShutdownExits(w) ==
    /\ pc[w] \notin {"off", "new", "stopped", "dead"}
    /\ Cardinality({v \in Workers : shutdownRequested[v]}) < MaxSignals
    /\ ~shutdownRequested[w]
    /\ shutdownRequested' = [shutdownRequested EXCEPT ![w] = TRUE]
    /\ isRunning' = [isRunning EXCEPT ![w] = FALSE]
    /\ pc' = [pc EXCEPT ![w] = "stopped"]
    /\ UNCHANGED <<jobs, chart, now, job, ocr, errMsg, histVars>>

\* SIGTERM/SIGINT handler, once start() has registered it
Shutdown(w) ==
    /\ pc[w] \notin {"off", "new", "stopped", "dead"}
    /\ Cardinality({v \in Workers : shutdownRequested[v]}) < MaxSignals
    /\ ~shutdownRequested[w]
    /\ shutdownRequested' = [shutdownRequested EXCEPT ![w] = TRUE]
    /\ isRunning' = [isRunning EXCEPT ![w] = FALSE]
    /\ UNCHANGED <<jobs, chart, now, pc, job, ocr, errMsg, histVars>>

Next ==
    \/ AddJob
    \/ Tick
    \/ \E w \in Workers : Start(w)
    \/ \E w \in Workers : Sweep(w)
    \/ \E w \in Workers : Loop(w)
    \/ \E w \in Workers : Select(w)
    \/ \E w \in Workers : Update(w)
    \/ \E w \in Workers : UpdateChartProcessing(w)
    \/ \E w \in Workers : PerformOCR(w)
    \/ \E w \in Workers : ProcessForCoding(w)
    \/ \E w \in Workers : GenerateSummary(w)
    \/ \E w \in Workers : UpdateWithAIResults(w)
    \/ \E w \in Workers : CompleteJob(w)
    \/ \E w \in Workers : FailJob(w)
    \/ \E w \in Workers : UpdateChartFailed(w)
    \/ \E w \in Workers : Shutdown(w)

Spec == Init /\ [][Next]_vars

\* ------------------------------------------- one worker, store errors
\* The worker process as an operator runs it: one process deployed, store
\* calls that may throw, repeated signals, and the process started again
\* after it stopped.

\* the state before the only worker process is launched
InitSolo ==
    /\ jobs = << >>
    /\ chart = << >>
    /\ now = 0
    /\ pc = [w \in Workers |-> IF w = 1 THEN "new" ELSE "off"]
    /\ isRunning = [w \in Workers |-> FALSE]
    /\ shutdownRequested = [w \in Workers |-> FALSE]
    /\ job = [w \in Workers |-> NullRow]
    /\ ocr = [w \in Workers |-> NoProgress]
    /\ errMsg = [w \in Workers |-> ""]
    /\ claimants = [id \in 1..NumJobs |-> {}]
    /\ failCount = [id \in 1..NumJobs |-> 0]
    /\ readyBy = [id \in 1..NumJobs |-> FALSE]
    /\ sweeps = [w \in Workers |-> 0]

\* releaseStuckJobs throws: start() rejects and the process exits,
\* worker.start().catch(... process.exit(1))
SweepError(w) ==
    /\ pc[w] = "sweep"
    /\ sweeps' = [sweeps EXCEPT ![w] = @ + 1]
    /\ pc' = [pc EXCEPT ![w] = "dead"]
    /\ UNCHANGED <<jobs, chart, now, isRunning, shutdownRequested, job, ocr, errMsg,
                   claimants, failCount, readyBy>>

\* variant: the error of a claim is not caught by the loop of start()
ClaimNextJobErrorFatal(w) ==
    /\ pc[w] \in {"select", "update"}
    /\ pc' = [pc EXCEPT ![w] = "dead"]
    /\ job' = [job EXCEPT ![w] = NullRow]
    /\ UNCHANGED <<jobs, chart, now, isRunning, shutdownRequested, ocr, errMsg, histVars>>

\* variant: the UPDATE of the claim is committed although the call throws
ClaimNextJobErrorNoRollback(w) ==
    /\ pc[w] \in {"select", "update"}
    /\ jobs' = IF pc[w] = "update"
               THEN [jobs EXCEPT ![Id(w)] = ClaimedRow(jobs[Id(w)], w)]
               ELSE jobs
    /\ pc' = [pc EXCEPT ![w] = "loop"]
    /\ job' = [job EXCEPT ![w] = NullRow]
    /\ errMsg' = [errMsg EXCEPT ![w] = "claim error"]
    /\ UNCHANGED <<chart, now, isRunning, shutdownRequested, ocr, histVars>>

\* claimNextJob throws: pool.connect, BEGIN or the SELECT fails (nothing is
\* selected), or the UPDATE or COMMIT fails (the row is selected and locked);
\* catch: ROLLBACK, throw; the error reaches the catch of the loop of start()
ClaimNextJobError(w) ==
    /\ pc[w] \in {"select", "update"}
    /\ pc' = [pc EXCEPT ![w] = "loop"]
    /\ job' = [job EXCEPT ![w] = NullRow]
    /\ errMsg' = [errMsg EXCEPT ![w] = "claim error"]
    /\ UNCHANGED <<jobs, chart, now, isRunning, shutdownRequested, ocr, histVars>>

\* variant: the store calls of a run are outside the try block, their error
\* goes straight to the loop of start()
RunStoreErrorUncaught(w) ==
    /\ pc[w] \in {"chart", "ocr", "save", "complete"}
    /\ Return(w)
    /\ UNCHANGED <<jobs, chart, now, isRunning, shutdownRequested, histVars>>

\* a store call inside the try block of processNextJob throws
\* (updateStatus, updateOCRResults/markOCRFailed, updateWithAIResults,
\* completeJob): the catch block takes over
RunStoreError(w) ==
    /\ pc[w] \in {"chart", "ocr", "save", "complete"}
    /\ pc' = [pc EXCEPT ![w] = "fail"]
    /\ ocr' = [ocr EXCEPT ![w] = NoProgress]
    /\ errMsg' = [errMsg EXCEPT ![w] = "store error"]
    /\ UNCHANGED <<jobs, chart, now, isRunning, shutdownRequested, job, histVars>>

\* failJob, or updateStatus(..., 'failed'), throws inside the catch block:
\* the error escapes processNextJob and is caught by the loop of start()
CatchStoreError(w) ==
    /\ pc[w] \in {"fail", "failchart"}
    /\ Return(w)
    /\ UNCHANGED <<jobs, chart, now, isRunning, shutdownRequested, histVars>>

\* a further SIGTERM/SIGINT: `if (this.shutdownRequested) return`
ShutdownAgain(w) ==
    /\ pc[w] \notin {"off", "new", "stopped", "dead"}
    /\ shutdownRequested[w]
    /\ UNCHANGED vars

\* the operator launches the worker process again: constructor
Restart(w) ==
    /\ pc[w] \in {"stopped", "dead"}
    /\ pc' = [pc EXCEPT ![w] = "new"]
    /\ isRunning' = [isRunning EXCEPT ![w] = FALSE]
    /\ shutdownRequested' = [shutdownRequested EXCEPT ![w] = FALSE]
    /\ sweeps' = [sweeps EXCEPT ![w] = 0]
    /\ UNCHANGED <<jobs, chart, now, job, ocr, errMsg, claimants, failCount, readyBy>>

\* the steps of the code of worker w that return normally
Run(w) ==
    \/ Start(w) \/ Sweep(w) \/ Loop(w) \/ Select(w) \/ Update(w)
    \/ UpdateChartProcessing(w) \/ PerformOCR(w) \/ ProcessForCoding(w)
    \/ GenerateSummary(w) \/ UpdateWithAIResults(w) \/ CompleteJob(w)
    \/ FailJob(w) \/ UpdateChartFailed(w)

NextSolo ==
    \/ Next
    \/ \E w \in Workers : SweepError(w)
    \/ \E w \in Workers : ClaimNextJobError(w)
    \/ \E w \in Workers : RunStoreError(w)
    \/ \E w \in Workers : CatchStoreError(w)
    \/ \E w \in Workers : ShutdownAgain(w)
    \/ \E w \in Workers : Restart(w)

\* the event loop of a live process runs the code on: a step that can
\* return is not put off for ever
SpecSolo ==
    /\ InitSolo
    /\ [][NextSolo]_vars
    /\ \A w \in Workers : WF_vars(Run(w))

\* ------------------------------------------- one worker, clock standing
\* The runs of one worker process while the clock reading stays the same:
\* no lock grows old, so the sweep of a start releases nothing, no job is
\* claimed a third time and the chart is never marked failed.
NextStop ==
    \/ AddJob
    \/ \E w \in Workers : Start(w)
    \/ \E w \in Workers : Sweep(w)
    \/ \E w \in Workers : Loop(w)
    \/ \E w \in Workers : Select(w)
    \/ \E w \in Workers : Update(w)
    \/ \E w \in Workers : UpdateChartProcessing(w)
    \/ \E w \in Workers : PerformOCR(w)
    \/ \E w \in Workers : ProcessForCoding(w)
    \/ \E w \in Workers : GenerateSummary(w)
    \/ \E w \in Workers : UpdateWithAIResults(w)
    \/ \E w \in Workers : CompleteJob(w)
    \/ \E w \in Workers : FailJob(w)
    \/ \E w \in Workers : Shutdown(w)
    \/ \E w \in Workers : SweepError(w)
    \/ \E w \in Workers : ClaimNextJobError(w)
    \/ \E w \in Workers : RunStoreError(w)
    \/ \E w \in Workers : CatchStoreError(w)
    \/ \E w \in Workers : ShutdownAgain(w)
    \/ \E w \in Workers : Restart(w)

SpecStop ==
    /\ InitSolo
    /\ [][NextStop]_vars
    /\ \A w \in Workers : WF_vars(Run(w))

\* ------------------------------------------- two workers, one may crash
\* One chart has been uploaded, two worker processes are launched at any
\* time, and a process may die while it executes a job.  No process is
\* launched a second time.

\* the state after one upload, before the worker processes are launched
InitCrash ==
    /\ jobs = <<NewRow(1, NumDocs)>>
    /\ chart = <<"queued">>
    /\ now = 0
    /\ pc = [w \in Workers |-> "new"]
    /\ isRunning = [w \in Workers |-> FALSE]
    /\ shutdownRequested = [w \in Workers |-> FALSE]
    /\ job = [w \in Workers |-> NullRow]
    /\ ocr = [w \in Workers |-> NoProgress]
    /\ errMsg = [w \in Workers |-> ""]
    /\ claimants = [id \in 1..NumJobs |-> {}]
    /\ failCount = [id \in 1..NumJobs |-> 0]
    /\ readyBy = [id \in 1..NumJobs |-> FALSE]
    /\ sweeps = [w \in Workers |-> 0]

\* the worker process dies inside the try block of processNextJob (kill -9,
\* out of memory, host failure): no catch block and no handler runs, the
\* row it claimed stays as it is
Crash(w) ==
    /\ pc[w] \in {"chart", "ocr", "ai", "summary", "save", "complete"}
    /\ Cardinality({v \in Workers : pc[v] = "crashed"}) < MaxCrashes
    /\ pc' = [pc EXCEPT ![w] = "crashed"]
    /\ isRunning' = [isRunning EXCEPT ![w] = FALSE]
    /\ job' = [job EXCEPT ![w] = NullRow]
    /\ ocr' = [ocr EXCEPT ![w] = NoProgress]
    /\ errMsg' = [errMsg EXCEPT ![w] = ""]
    /\ UNCHANGED <<jobs, chart, now, shutdownRequested, histVars>>

NextCrash ==
    \/ Tick
    \/ \E w \in Workers : Start(w)
    \/ \E w \in Workers : Sweep(w)
    \/ \E w \in Workers : Loop(w)
    \/ \E w \in Workers : Select(w)
    \/ \E w \in Workers : Update(w)
    \/ \E w \in Workers : UpdateChartProcessing(w)
    \/ \E w \in Workers : PerformOCR(w)
    \/ \E w \in Workers : ProcessForCoding(w)
    \/ \E w \in Workers : GenerateSummary(w)
    \/ \E w \in Workers : UpdateWithAIResults(w)
    \/ \E w \in Workers : CompleteJob(w)
    \/ \E w \in Workers : FailJob(w)
    \/ \E w \in Workers : UpdateChartFailed(w)
    \/ \E w \in Workers : Crash(w)

\* a process that is alive goes on with its next step; nothing obliges the
\* clock to advance or a process to die
SpecCrash ==
    /\ InitCrash
    /\ [][NextCrash]_vars
    /\ \A w \in Workers : WF_vars(Run(w))

\* ---------------------------------------------------------------- claims

\* a step in which worker w's claimNextJob selects a row / finds none
SelectsRow(w) == pc[w] = "select" /\ pc'[w] = "update"
SelectsNone(w) == pc[w] = "select" /\ pc'[w] = "loop"

\* a job a claim may take, as the claims state it: pending, or failed with
\* attempts below max_attempts
Claimable(row) ==
    row.status = "pending" \/ (row.status = "failed" /\ row.attempts < row.max_attempts)

\* job id is the row of a claim transaction that has selected and not committed
HeldByClaim(id) == \E v \in Workers : pc[v] = "update" /\ job[v].job_id = id

\* positions of a worker that was returned a job and has not yet called
\* completeJob or failJob for it
Holding == {"chart", "ocr", "ai", "summary", "save", "complete", "fail"}

\* C1: among claims with no completeJob, failJob or release of the job in
\* between, a job is returned to at most one claimNextJob call, two claim
\* transactions in progress never hold the same row, and a call comes back
\* empty only when every eligible job is held by a concurrent claim.
C1_AtMostOneClaimant ==
    [][ /\ \A id \in 1..NumJobs : Cardinality(claimants'[id]) <= 1
        /\ \A v, w \in Workers :
              (v # w /\ pc'[v] = "update" /\ pc'[w] = "update")
                 => job'[v].job_id # job'[w].job_id
        /\ \A w \in Workers :
              SelectsNone(w) => \A id \in JobIds : Claimable(jobs[id]) => HeldByClaim(id)
      ]_vars

\* C1 witness: both jobs are claimed at once, by different workers
C1_Witness ==
    /\ Len(jobs) = 2
    /\ \E v, w \in Workers :
          v # w /\ claimants[1] = {v} /\ claimants[2] = {w}
                /\ jobs[1].status = "processing" /\ jobs[2].status = "processing"

\* C2: no job is held by two workers at once: no second worker is returned
\* a job that a first worker was returned and has not yet completed or failed.
C2_OneHolder ==
    \A id \in JobIds :
       Cardinality({w \in Workers : pc[w] \in Holding /\ Id(w) = id}) <= 1

\* C3: a claim selects the eligible, unlocked job of smallest created_at,
\* and created_at of a job never changes (so a retried job keeps its place).
C3_FifoByCreation ==
    [][ /\ \A w \in Workers :
              SelectsRow(w) =>
                 LET id == job'[w].job_id
                 IN  /\ Claimable(jobs[id]) /\ ~HeldByClaim(id)
                     /\ \A k \in JobIds :
                           (Claimable(jobs[k]) /\ ~HeldByClaim(k))
                              => jobs[id].created_at <= jobs[k].created_at
        /\ \A id \in JobIds : jobs'[id].created_at = jobs[id].created_at
      ]_vars

\* C3 witness: a failed job with attempts left is selected while a job
\* created later is pending
C3_Witness ==
    /\ Len(jobs) = 2
    /\ jobs[2].status = "pending"
    /\ \E w \in Workers :
          /\ pc[w] = "update" /\ Id(w) = 1
          /\ job[w].status = "failed" /\ job[w].attempts >= 1

\* C4: once failJob has been called max_attempts times on a job it is never
\* claimed again; a failed job whose every claim ended in failJob, fewer
\* than max_attempts times, is eligible at once: a claimNextJob that finds
\* it unlocked does not come back empty.
C4_RetryCeiling ==
    [][ \A id \in JobIds :
          /\ failCount[id] >= jobs[id].max_attempts
                => /\ jobs'[id].attempts = jobs[id].attempts
                   /\ \A w \in Workers : SelectsRow(w) => job'[w].job_id # id
          /\ ( /\ jobs[id].status = "failed"
               /\ failCount[id] = jobs[id].attempts
               /\ failCount[id] < jobs[id].max_attempts )
                => \A w \in Workers : SelectsNone(w) => HeldByClaim(id)
      ]_vars

\* C4 witness: a claim passes over a job failed max_attempts times and takes
\* the other job
C4_Witness ==
    /\ Len(jobs) = 2
    /\ jobs[1].status = "failed"
    /\ failCount[1] = jobs[1].max_attempts
    /\ \E w \in Workers : pc[w] = "update" /\ Id(w) = 2

\* a step in which worker w's completeJob / failure handling returns
CompleteReturns(w) == pc[w] = "complete" /\ pc'[w] = "loop"
FailureReturns(w)  == pc[w] \in {"fail", "failchart"} /\ pc'[w] = "loop"
SweepReturns(w)    == pc[w] = "sweep" /\ pc'[w] = "loop"

\* attempts of the job of worker w as stored right after w's claim: the
\* selected row's attempts, incremented by the claim's UPDATE
AttemptsAfterClaim(w) == job[w].attempts + 1

\* C5: completeJob on a job that is already completed leaves its row as it
\* was, completed_at included.
C5_CompleteIdempotent ==
    [][ \A w \in Workers :
          (CompleteReturns(w) /\ jobs[Id(w)].status = "completed")
             => jobs'[Id(w)] = jobs[Id(w)]
      ]_vars

\* C6: releaseStuckJobs(threshold) turns exactly the processing jobs locked
\* for longer than the threshold into pending jobs with worker_id and
\* locked_at cleared, leaves every other job as it was, and nothing else
\* takes a job from processing back to pending.
C6_ReleaseStuck ==
    [][ /\ \A w \in Workers :
              SweepReturns(w) =>
                 \A id \in JobIds :
                    IF jobs[id].status = "processing"
                          /\ now - jobs[id].locked_at > StuckMinutes
                    THEN /\ jobs'[id].status = "pending"
                         /\ jobs'[id].worker_id = NoWorker
                         /\ jobs'[id].locked_at = NULL
                    ELSE jobs'[id] = jobs[id]
        /\ \A id \in JobIds :
              (jobs[id].status = "processing" /\ jobs'[id].status = "pending")
                 => /\ \E w \in Workers : SweepReturns(w)
                    /\ now - jobs[id].locked_at > StuckMinutes
      ]_vars

\* C6 witness: a sweep has just released a job that had been claimed
C6_Witness ==
    \E id \in JobIds :
       /\ jobs[id].status = "pending"
       /\ jobs[id].attempts >= 1
       /\ jobs[id].worker_id = NoWorker
       /\ jobs[id].locked_at = NULL
       /\ jobs[id].error_message = "Released: worker timeout"

\* C7: when the failure handling of a run whose claim brought attempts to
\* max_attempts or more returns, the chart of the job is 'failed'.
C7_ChartFailedOnExhaustion ==
    [][ \A w \in Workers :
          (FailureReturns(w) /\ AttemptsAfterClaim(w) >= job[w].max_attempts)
             => chart'[Id(w)] = "failed"
      ]_vars

\* C8: when the failure handling of a run whose claim left attempts below
\* max_attempts returns, the chart of the job is 'retry_pending'.
C8_ChartRetryPending ==
    [][ \A w \in Workers :
          (FailureReturns(w) /\ AttemptsAfterClaim(w) < job[w].max_attempts)
             => chart'[Id(w)] = "retry_pending"
      ]_vars

\* C9: a worker about to call completeJob for a job, and every completed
\* job, has had the chart of the job set to 'ready' by a run of that job.
C9_ReadyBeforeComplete ==
    \A id \in JobIds :
       ( \/ jobs[id].status = "completed"
         \/ \E w \in Workers : pc[w] = "complete" /\ Id(w) = id )
          => readyBy[id]

\* C9 witness: a job is completed and its chart is 'ready'
C9_Witness ==
    \E id \in JobIds :
       jobs[id].status = "completed" /\ readyBy[id] /\ chart[id] = "ready"

\* C10: the job a claim returns carries the attempts the store holds after
\* the claim (the number of claims so far), and a run that succeeds leaves
\* the job completed and its chart 'ready'.
C10_AttemptsSeenAndOutcome ==
    [][ \A w \in Workers :
          /\ (pc[w] = "update" /\ pc'[w] = "chart")
                => job'[w].attempts = jobs'[job'[w].job_id].attempts
          /\ CompleteReturns(w)
                => jobs'[Id(w)].status = "completed" /\ chart'[Id(w)] = "ready"
      ]_vars

\* no document of ocrResults has a successful OCR
NoOcrSuccess(res) == \A k \in 1..Len(res) : res[k] # "completed"

\* C11: when the OCR loop ends with no successful document (also for a job
\* of zero documents) the run goes to its failure handling, whose failJob
\* marks the job failed with that error unless failJob itself throws;
\* processForCoding is only ever called with a successful document, and the
\* summary collaborator only after processForCoding.
C11_AllOcrFailed ==
    /\ AfterOCR(0, 0, 0) = "fail"
    /\ [][ \A w \in Workers :
             /\ (pc[w] = "ocr" /\ pc'[w] # "ocr" /\ NoOcrSuccess(ocr'[w].res))
                   => pc'[w] = "fail"
             /\ pc'[w] = "ai"
                   => pc[w] \in {"ocr", "ai"} /\ ~NoOcrSuccess(ocr'[w].res)
             /\ pc'[w] = "summary" => pc[w] \in {"ai", "summary"}
             /\ (pc[w] = "fail" /\ errMsg[w] = "All OCR processing failed"
                               /\ pc'[w] # "fail")
                   => /\ pc'[w] \in {"loop", "failchart"}
                      /\ \/ /\ jobs'[Id(w)].status = "failed"
                            /\ jobs'[Id(w)].error_message = "All OCR processing failed"
                            /\ failCount'[Id(w)] = failCount[Id(w)] + 1
                         \/ jobs' = jobs
         ]_vars

\* C11 witness: failJob has failed a job all of whose documents failed OCR
C11_Witness ==
    \E id \in JobIds :
       /\ jobs[id].status = "failed"
       /\ jobs[id].error_message = "All OCR processing failed"
       /\ failCount[id] >= 1

\* a step in which the OCR loop of worker w handles one more document
OcrStep(w) == pc[w] = "ocr" /\ ocr'[w].i = ocr[w].i + 1

SummaryStep(w) == pc[w] = "summary" /\ (pc'[w] # "summary" \/ ocr'[w] # ocr[w])

\* the catch block of worker w has taken over because a store call threw
StoreErrorCaught(w) == pc'[w] = "fail" /\ errMsg'[w] = "store error"

\* C13: whatever a summary call does, the summary loop goes on to the next
\* successful document and then to the saving of the results, changing no
\* job and no chart; a run in which a summary failed still sets the chart
\* 'ready' and completes the job, unless one of these two store calls throws.
C13_SummaryBestEffort ==
    [][ \A w \in Workers :
          /\ SummaryStep(w) =>
                /\ IF ocr[w].s + 1 < ocr[w].ok
                   THEN pc'[w] = "summary" /\ ocr'[w].s = ocr[w].s + 1
                   ELSE pc'[w] = "save"
                /\ jobs' = jobs /\ chart' = chart
          /\ (pc[w] = "save" /\ ocr[w].sfail /\ pc'[w] # "save")
                => \/ pc'[w] = "complete" /\ chart'[Id(w)] = "ready"
                   \/ StoreErrorCaught(w)
          /\ (pc[w] = "complete" /\ ocr[w].sfail /\ pc'[w] # "complete")
                => \/ pc'[w] = "loop" /\ jobs'[Id(w)].status = "completed"
                   \/ StoreErrorCaught(w)
      ]_vars

\* C13 witness: after a failed summary the chart was set 'ready' and
\* completeJob is about to be called
C13_Witness ==
    \E w \in Workers :
       pc[w] = "complete" /\ ocr[w].sfail /\ chart[Id(w)] = "ready"

\* positions of a worker inside a poll cycle: in claimNextJob or running a job
InCycle == {"select", "update", "chart", "ocr", "ai", "summary", "save",
            "complete", "fail", "failchart"}

\* C14: no step inside a poll cycle ends the worker: a cycle ends, with or
\* without an error, back at the loop of start(), holding no job; from there
\* a running worker polls again, and the worker stops only at the loop test
\* once isRunning is false.  Only an error of the sweep at start is fatal.
C14_CycleErrorsNotFatal ==
    [][ \A w \in Workers :
          /\ pc[w] \in InCycle => pc'[w] \in InCycle \cup {"loop"}
          /\ (pc[w] \in InCycle /\ pc'[w] = "loop") => job'[w] = NullRow
          /\ (pc[w] = "loop" /\ pc'[w] # "loop")
                => pc'[w] = (IF isRunning[w] THEN "select" ELSE "stopped")
          /\ pc'[w] = "stopped" => pc[w] \in {"loop", "stopped"}
          /\ pc'[w] = "dead" => pc[w] \in {"sweep", "dead"}
      ]_vars

\* C14 witness: a running worker polls again while the job of its last
\* cycle is still 'processing' under its name: failJob threw in that cycle
C14_Witness ==
    \E w \in Workers : \E id \in JobIds :
       /\ pc[w] = "select" /\ isRunning[w]
       /\ jobs[id].status = "processing" /\ jobs[id].worker_id = w
       /\ jobs[id].locked_at = now

\* C15: a worker process has issued no releaseStuckJobs before start() calls
\* it, and exactly one from then on; it is in a poll cycle (claimNextJob
\* included) only after that one call has returned, and a claim is entered
\* from the loop only.
C15_SweepOnceAtStart ==
    [][ \A w \in Workers :
          /\ sweeps'[w] = (IF pc'[w] \in {"off", "new", "sweep"} THEN 0 ELSE 1)
          /\ pc'[w] = "select" => pc[w] \in {"loop", "select"}
          /\ pc'[w] = "loop" => pc[w] \in InCycle \cup {"sweep", "loop"}
          /\ sweeps'[w] > sweeps[w] => pc[w] = "sweep"
      ]_vars

\* C15 witness: the first claim of a worker selects a job that the sweep of
\* its start released
C15_Witness ==
    \E w \in Workers :
       /\ pc[w] = "update" /\ sweeps[w] = 1
       /\ job[w].status = "pending"
       /\ job[w].error_message = "Released: worker timeout"

\* a step in which the claim of worker w takes effect: UPDATE and COMMIT
ClaimTakesEffect(w) ==
    /\ pc[w] = "update" /\ pc'[w] = "chart"
    /\ jobs'[Id(w)].status = "processing" /\ jobs'[Id(w)].worker_id = w

\* C16: once a worker has received a termination signal, no claim of that
\* worker takes effect.
C16_NoClaimAfterSignal ==
    [][ \A w \in Workers : shutdownRequested[w] => ~ClaimTakesEffect(w) ]_vars

\* positions of a worker whose process has ended
Ended == {"stopped", "dead"}

\* C17: a worker that has received a termination signal is no longer
\* running and eventually ends; it ends only at the loop test, holding no
\* job, and the job it was executing leaves execution only through the
\* completeJob call or the catch block with its failJob call.
C17_GracefulStop ==
    /\ \A w \in Workers : shutdownRequested[w] ~> (pc[w] \in Ended)
    /\ [](\A w \in Workers : shutdownRequested[w] => ~isRunning[w])
    /\ [][ \A w \in Workers :
             /\ (pc'[w] = "stopped" /\ pc[w] # "stopped")
                   => pc[w] = "loop" /\ job[w] = NullRow
             /\ (pc[w] \in Holding \cup {"failchart"} /\ pc'[w] = "loop")
                   => pc[w] \in {"complete", "fail", "failchart"}
             /\ (shutdownRequested[w] /\ shutdownRequested'[w])
                   => isRunning'[w] = isRunning[w]
         ]_vars

\* C17 witness: a worker that has received the signal has run its job up to
\* the completeJob call
C17_Witness ==
    \E w \in Workers :
       /\ shutdownRequested[w] /\ ~isRunning[w]
       /\ pc[w] = "complete" /\ chart[Id(w)] = "ready"

\* the phases of a successful attempt, in the order the events are due
PhaseOrder ==
    << "processing", "ocr_started", "ocr_completed", "ai_started",
       "ai_completed", "saving_results", "completed" >>

\* C18: when completeJob returns for a successful attempt, the worker has
\* emitted for that attempt exactly the phase events processing,
\* ocr_started, ocr_completed, ai_started, ai_completed, saving_results,
\* completed, each once and in this order.
C18_PhaseEvents ==
    [][ \A w \in Workers :
          (CompleteReturns(w) /\ jobs'[Id(w)].status = "completed")
             => EmittedPhases(w) = PhaseOrder
      ]_vars

\* a step of the claimNextJob call of worker w
ClaimStep(w) == pc[w] \in {"select", "update"} /\ pc'[w] # pc[w]

\* C19: a step of a claimNextJob call changes the job table only when it is
\* the commit of the claim, which sets status, worker_id, locked_at,
\* started_at and attempts of the selected row together and touches no other
\* row or column; a call that ends with an error or finds no eligible job
\* leaves every row as it was, returns no job to processNextJob and holds
\* no row lock.
C19_ClaimAllOrNothing ==
    [][ \A w \in Workers :
          ClaimStep(w) =>
             /\ pc'[w] \in {"loop", "update", "chart"}
             /\ pc'[w] \in {"loop", "update"} => jobs' = jobs
             /\ pc'[w] = "loop" => job'[w] = NullRow
             /\ pc'[w] = "chart" =>
                   jobs' = [jobs EXCEPT ![Id(w)] =
                              [@ EXCEPT !.status     = "processing",
                                        !.worker_id  = w,
                                        !.locked_at  = now,
                                        !.started_at = IF @ = NULL THEN now ELSE @,
                                        !.attempts   = @ + 1]]
             /\ SelectsNone(w) /\ errMsg'[w] # "claim error"
                   => \A id \in JobIds : ~Claimable(jobs[id])
      ]_vars

\* C19 witness: a claim has just ended with an error and a job that it could
\* have taken is still eligible, unlocked and unowned
C19_Witness ==
    \E w \in Workers : \E id \in JobIds :
       /\ pc[w] = "loop" /\ errMsg[w] = "claim error"
       /\ Claimable(jobs[id]) /\ ~HeldByClaim(id)
       /\ jobs[id].worker_id = NoWorker /\ jobs[id].locked_at = NULL

\* the status changes the queue is meant to make
StatusChanges ==
    { <<"pending", "processing">>, <<"failed", "processing">>,
      <<"processing", "completed">>, <<"processing", "failed">>,
      <<"processing", "pending">> }

\* C20: every change of the status of a job is pending -> processing,
\* failed -> processing (with attempts below max_attempts), processing ->
\* completed, processing -> failed or processing -> pending; so a completed
\* job keeps its status.
C20_StatusTransitions ==
    [][ \A id \in JobIds :
          jobs'[id].status # jobs[id].status =>
             /\ <<jobs[id].status, jobs'[id].status>> \in StatusChanges
             /\ jobs[id].status = "failed" => jobs[id].attempts < jobs[id].max_attempts
      ]_vars

\* C21: a job has a worker_id and a locked_at only while its status is
\* 'processing'.
C21_LockFieldsCleared ==
    \A id \in JobIds :
       jobs[id].status # "processing"
          => jobs[id].worker_id = NoWorker /\ jobs[id].locked_at = NULL

\* C22: the job a claim returns equals the row the store holds right after
\* the claim: status 'processing', worker_id the claimant, attempts the
\* prior attempts plus one, and the lock and start times of the claim.
C22_ReturnsUpdatedRow ==
    [][ \A w \in Workers :
          (pc[w] = "update" /\ pc'[w] = "chart")
             => /\ job'[w].status = "processing"
                /\ job'[w].worker_id = w
                /\ job'[w].attempts = job[w].attempts + 1
                /\ job'[w] = jobs'[job'[w].job_id]
      ]_vars

\* C23: the five buckets of getStats sum to total, every job passes the
\* filter of exactly one bucket, and the jobs counted as retrying are the
\* failed jobs that a claim still accepts.
C23_StatsPartition ==
    /\ GetStats["pending"] + GetStats["processing"] + GetStats["completed"]
          + GetStats["permanently_failed"] + GetStats["retrying"] = GetStats["total"]
    /\ GetStats["total"] = Len(jobs)
    /\ GetStats["retrying"] =
          Cardinality({ id \in JobIds : jobs[id].status = "failed" /\ Eligible(jobs[id]) })
    /\ \A id \in JobIds :
          Cardinality({ b \in StatsBuckets : StatsFilter(b, jobs[id]) }) = 1

\* C23 witness: one job is counted as retrying and one as permanently failed
C23_Witness ==
    /\ GetStats["retrying"] = 1
    /\ GetStats["permanently_failed"] = 1
    /\ GetStats["total"] = 2

\* the columns of a job that releaseStuckJobs does not assign
KeptByRelease(row) ==
    <<row.job_id, row.attempts, row.max_attempts, row.ndocs, row.created_at,
      row.started_at, row.completed_at>>

\* C24: a call of releaseStuckJobs changes only rows that were processing
\* with a lock older than the threshold, and of those only status,
\* worker_id, locked_at and error_message; it adds and removes no row.
C24_ReleaseFrame ==
    [][ \A w \in Workers :
          SweepReturns(w)
             => /\ Len(jobs') = Len(jobs)
                /\ \A id \in JobIds :
                      /\ KeptByRelease(jobs'[id]) = KeptByRelease(jobs[id])
                      /\ jobs'[id] # jobs[id]
                            => /\ jobs[id].status = "processing"
                               /\ jobs[id].locked_at < now - StuckMinutes
      ]_vars

\* C24 witness: a sweep has released a job that another worker is still
\* executing, and the released job kept its attempt
C24_Witness ==
    \E w \in Workers, v \in Workers, id \in JobIds :
       /\ w # v
       /\ pc[w] = "loop" /\ sweeps[w] = 1
       /\ pc[v] \in Holding /\ job[v].job_id = id
       /\ jobs[id].status = "pending"
       /\ jobs[id].error_message = "Released: worker timeout"
       /\ jobs[id].attempts = 1
       /\ jobs[id].started_at # NULL

\* positions inside the try block of processNextJob
InTry == {"chart", "ocr", "ai", "summary", "save", "complete"}

\* C25: a run of a claimed job leaves the try block only by a completeJob
\* that succeeded or into the catch block, with its job and the error; the
\* catch block calls failJob first, which records the failure with that
\* error unless failJob itself throws; the chart update that follows leaves
\* the recorded failure as it is, and whether it succeeds or throws the
\* worker is back at its loop.
C25_ThrowReachesFailJob ==
    [][ \A w \in Workers :
          /\ (pc[w] \in InTry /\ pc'[w] \notin InTry)
                => \/ /\ pc[w] = "complete" /\ pc'[w] = "loop"
                      /\ jobs'[Id(w)].status = "completed"
                   \/ /\ pc'[w] = "fail"
                      /\ job'[w] = job[w]
                      /\ errMsg'[w] # ""
                      /\ jobs' = jobs
          /\ (pc[w] = "fail" /\ pc'[w] # "fail")
                => \/ /\ jobs'[Id(w)].status = "failed"
                      /\ jobs'[Id(w)].error_message = errMsg[w]
                      /\ failCount'[Id(w)] = failCount[Id(w)] + 1
                      /\ pc'[w] \in {"failchart", "loop"}
                   \/ jobs' = jobs /\ pc'[w] = "loop"
          /\ (pc[w] = "failchart" /\ pc'[w] # "failchart")
                => /\ pc'[w] = "loop"
                   /\ jobs' = jobs
                   /\ jobs[Id(w)].status = "failed"
      ]_vars

\* C25 witness: the chart update to 'processing' threw, the job's failure is
\* recorded with that error and the worker is back at its loop
C25_Witness ==
    \E w \in Workers, id \in JobIds :
       /\ pc[w] = "loop" /\ isRunning[w]
       /\ jobs[id].status = "failed"
       /\ jobs[id].error_message = "store error"
       /\ jobs[id].worker_id = w
       /\ chart[id] = "queued"

\* C26: no job has more attempts than max_attempts.
C26_AttemptsBounded ==
    \A id \in JobIds : jobs[id].attempts <= jobs[id].max_attempts

\* worker w is the owner of the job it executes: the job is processing
\* under w's id
Owns(w) == jobs[Id(w)].status = "processing" /\ jobs[Id(w)].worker_id = w

\* C27: a completeJob or failJob call of a worker that is not, or no longer,
\* the owner of the job leaves the job's row as it was.
C27_StaleOutcomeRejected ==
    [][ \A w \in Workers :
          ((CompleteReturns(w) \/ (pc[w] = "fail" /\ pc'[w] # "fail")) /\ ~Owns(w))
             => jobs'[Id(w)] = jobs[Id(w)]
      ]_vars

\* C28: no worker is the worker_id of two processing jobs.
C28_OneJobPerWorker ==
    \A w \in Workers :
       Cardinality({ id \in JobIds :
                       jobs[id].status = "processing" /\ jobs[id].worker_id = w }) <= 1

\* C29: a job is executed at most max_attempts times: a claim that takes
\* effect is at most the max_attempts-th claim of its job.
C29_ExecutedAtMostMaxAttempts ==
    [][ \A w \in Workers :
          ClaimTakesEffect(w)
             => jobs'[Id(w)].attempts <= jobs'[Id(w)].max_attempts
      ]_vars

\* job id is processing under a worker whose process has died
Orphaned(id) ==
    /\ id \in JobIds
    /\ jobs[id].status = "processing"
    /\ jobs[id].worker_id # NoWorker
    /\ pc[jobs[id].worker_id] = "crashed"

\* a worker other than the owner of job id is running its poll loop
OtherPolls(id) ==
    \E v \in Workers :
       v # jobs[id].worker_id /\ isRunning[v] /\ pc[v] \in {"loop", "select"}

\* C30: a job left processing by a worker that died, with its lock older
\* than the threshold and another worker running its poll loop, eventually
\* leaves processing under the dead worker (it is released and claimed again).
C30_CrashRecovery ==
    \A id \in 1..NumJobs :
       (Orphaned(id) /\ Stuck(jobs[id], StuckMinutes) /\ OtherPolls(id))
          ~> ~Orphaned(id)

====
